---------------------------- MODULE Spec2Model ----------------------------
(***************************************************************************)
(* A model of src/src/main.rs: the /chat handler (chat_handler), the       *)
(* upstream call and relay channel (chat_stream), the spawned producer     *)
(* loop, the response body that consumes the channel, and the two text     *)
(* transforms (clean_content, enforce_personality).                        *)
(*                                                                         *)
(* Text is a sequence of pieces.  A piece is a word character, a           *)
(* whitespace character, a whole marker, or one half of the marker         *)
(* "<unk>" ("<u" directly followed by "nk>" reads "<unk>").  The empty     *)
(* sequence is the empty string.                                           *)
(***************************************************************************)
EXTENDS Integers, Sequences, FiniteSets, TLC

VARIABLES
    hpc,          \* chat_handler's position
    prompt,       \* Option: the local `prompt` of line 65, <<>> when not held
    personality,  \* Option: the loaded Personality, <<>> before the load
    status,       \* status of the HTTP response returned, 0 while none is
    posts,        \* upstream POSTs issued (line 159-163)
    upStatus,     \* status of the upstream's reply, 0 while there is none
    upstream,     \* the items the reply's bytes_stream() will yield, in order
    upIdx,        \* items the producer has taken from the stream so far
    upOpen,       \* the upstream response (connection) is still held
    ppc,          \* the spawned task's position
    pending,      \* Option: the message of a tx.send(..).await in progress
    chan,         \* the mpsc channel's buffer
    cpc,          \* the response body (ReceiverStream) and its client
    sent,         \* history: messages tx.send accepted, in order
    delivered,    \* history: items the body yielded to the client, in order
    sendFailed,   \* history: some tx.send returned Err (receiver dropped)
    panicAt,      \* history: index of the chunk the task panicked on, 0 if none
    loadFailed,   \* history: load_personality panicked
    \* one fragment taken through clean_content and enforce_personality alone
    fpc,          \* how far the fragment is: input, cleaned, recleaned, enforced
    fRaw,         \* the raw fragment
    fPersona,     \* the persona it is processed under
    fCoin,        \* how gen_bool(0.3) came out in clean_content
    fClean,       \* the result of clean_content
    fAgain,       \* clean_content of that result, insertion not firing
    fCoinS,       \* how gen_bool(0.5) came out in enforce_personality
    fCoinC,       \* how gen_bool(0.4) came out in enforce_personality
    fOut          \* the result of enforce_personality

fnVars == << fpc, fRaw, fPersona, fCoin, fClean, fAgain, fCoinS, fCoinC, fOut >>

pipeVars == << hpc, prompt, personality, status, posts, upStatus, upstream,
               upIdx, upOpen, ppc, pending, chan, cpc, sent, delivered,
               sendFailed, panicAt, loadFailed >>

vars == << pipeVars, fnVars >>

-----------------------------------------------------------------------------
(* Bounds of the model *)

\* longest upstream reply explored with every kind of item
MaxUp == 2
\* longest raw fragment explored with every piece in every place
MaxLen == 3
\* items beyond the channel's capacity in the long reply that fills the channel
Extra == 2
\* longest prompt text explored
MaxPrompt == 2

(* Program constants *)

\* mpsc::channel(20)
Capacity == 20

-----------------------------------------------------------------------------
(* Text *)

Whitespace == {" "}

\* whole matches of \[control_\d+\] | <unk> | \[TOOL_CALLS\] | \[TOOL_RESULTS\]
WholeMarkers == {"[control_1]", "<unk>", "[TOOL_CALLS]", "[TOOL_RESULTS]"}

SarcasmSuffix == " Oh wow, genius move."
\* (the source writes the dash as U+2014)
CuriositySuffix == " But wait-have you ever considered the opposite approach?"

\* preserve_regex.replace_all(raw, |caps| caps[0]): every match is replaced
\* by itself
PreserveSystem(raw) == raw

\* pieces taken by a control_regex match starting at the head of s, 0 if none
MarkerLen(s) ==
    IF s = <<>> THEN 0
    ELSE IF Head(s) \in WholeMarkers THEN 1
    ELSE IF Len(s) >= 2 /\ s[1] = "<u" /\ s[2] = "nk>" THEN 2
    ELSE 0

\* control_regex.replace_all(s, ""): one left-to-right pass over
\* non-overlapping leftmost matches
RECURSIVE RemoveMarkers(_)
RemoveMarkers(s) ==
    IF s = <<>> THEN <<>>
    ELSE IF MarkerLen(s) > 0
         THEN RemoveMarkers(SubSeq(s, MarkerLen(s) + 1, Len(s)))
         ELSE <<Head(s)>> \o RemoveMarkers(Tail(s))

\* str::split_whitespace: the maximal runs of non-whitespace, in order
RECURSIVE SplitFrom(_, _)
SplitFrom(s, cur) ==
    IF s = <<>> THEN (IF cur = <<>> THEN <<>> ELSE <<cur>>)
    ELSE IF Head(s) \in Whitespace
         THEN (IF cur = <<>> THEN <<>> ELSE <<cur>>) \o SplitFrom(Tail(s), <<>>)
         ELSE SplitFrom(Tail(s), Append(cur, Head(s)))

SplitWhitespace(s) == SplitFrom(s, <<>>)

\* words.join(" ")
RECURSIVE JoinWords(_)
JoinWords(words) ==
    IF words = <<>> THEN <<>>
    ELSE IF Len(words) = 1 THEN words[1]
    ELSE words[1] \o <<" ">> \o JoinWords(Tail(words))

\* Vec::insert(index, phrase), index counted from 0
InsertAt(words, index, phrase) ==
    SubSeq(words, 1, index) \o <<phrase>> \o SubSeq(words, index + 1, Len(words))

\* the task unwinds: gen_range(1..words.len()) on an empty range
CleanPanic == [panic |-> TRUE, text |-> <<>>]

\* an insertion whose index is drawn from 0..words.len()
CleanContentAnyIndex(raw, p, coin) ==
    LET words == SplitWhitespace(RemoveMarkers(PreserveSystem(raw)))
        n     == Len(words)
    IN  IF p.signature_phrases # <<>> /\ coin
        THEN IF n < 1
             THEN {CleanPanic}
             ELSE { [panic |-> FALSE,
                     text  |-> JoinWords(InsertAt(words, i, p.signature_phrases[k]))] :
                      i \in 0..(n - 1), k \in 1..Len(p.signature_phrases) }
        ELSE { [panic |-> FALSE, text |-> JoinWords(words)] }

\* clean_content: the results the random source can produce when gen_bool(0.3)
\* comes out as `coin` (drawn only if there is a signature phrase)
CleanContent(raw, p, coin) ==
    LET words == SplitWhitespace(RemoveMarkers(PreserveSystem(raw)))
        n     == Len(words)
    IN  IF p.signature_phrases # <<>> /\ coin
        THEN IF n < 2
             THEN {CleanPanic}
             ELSE { [panic |-> FALSE,
                     text  |-> JoinWords(InsertAt(words, i, p.signature_phrases[k]))] :
                      i \in 1..(n - 1), k \in 1..Len(p.signature_phrases) }
        ELSE { [panic |-> FALSE, text |-> JoinWords(words)] }

\* an absent trait read as full intensity
TraitGetDefaultFull(p, name) ==
    IF \E t \in p.traits : t[1] = name
    THEN (CHOOSE t \in p.traits : t[1] = name)[2]
    ELSE 100

\* traits.get(name).unwrap_or(&0.0), intensities in hundredths
TraitGet(p, name) ==
    IF \E t \in p.traits : t[1] = name
    THEN (CHOOSE t \in p.traits : t[1] = name)[2]
    ELSE 0

\* the two appends as alternatives, curiosity first
EnforceEitherOr(response, p, coinS, coinC) ==
    IF TraitGet(p, "curiosity") > 70 /\ coinC
    THEN response \o <<CuriositySuffix>>
    ELSE IF TraitGet(p, "sarcasm") > 50 /\ coinS
         THEN response \o <<SarcasmSuffix>> ELSE response

\* thresholds that include their bound
EnforceInclusive(response, p, coinS, coinC) ==
    LET afterS == IF TraitGet(p, "sarcasm") >= 50 /\ coinS
                  THEN response \o <<SarcasmSuffix>> ELSE response
    IN  IF TraitGet(p, "curiosity") >= 70 /\ coinC
        THEN afterS \o <<CuriositySuffix>> ELSE afterS

\* enforce_personality, the two gen_bool draws coming out as coinS and coinC
\* (each drawn only if its trait is over the threshold)
EnforcePersonality(response, p, coinS, coinC) ==
    LET afterS == IF TraitGet(p, "sarcasm") > 50 /\ coinS
                  THEN response \o <<SarcasmSuffix>> ELSE response
    IN  IF TraitGet(p, "curiosity") > 70 /\ coinC
        THEN afterS \o <<CuriositySuffix>> ELSE afterS

-----------------------------------------------------------------------------
(* The ethical check *)

\* char::to_lowercase on the characters used
LowerChar(c) ==
    CASE c = "A" -> "a"
      [] c = "B" -> "b"
      [] c = "H" -> "h"
      [] OTHER   -> c

\* String::to_lowercase
ToLowercase(s) == [i \in 1..Len(s) |-> LowerChar(s[i])]

\* str::contains(&str)
Contains(hay, needle) ==
    \E i \in 0..(Len(hay) - Len(needle)) :
        SubSeq(hay, i + 1, i + Len(needle)) = needle

\* a check that forgets to fold case
RuleHitsCaseSensitive(text, rule) == Contains(text, rule)

\* the closure of line 68-70 for one rule
RuleHits(text, rule) == Contains(ToLowercase(text), ToLowercase(rule))

\* ethical_rules.join(". ")
RECURSIVE JoinRules(_)
JoinRules(rules) ==
    IF rules = <<>> THEN <<>>
    ELSE IF Len(rules) = 1 THEN rules[1]
    ELSE rules[1] \o <<".", " ">> \o JoinRules(Tail(rules))

\* lines 78-89: the composed prompt, of which the model keeps the bracketed
\* prefix with the rule list and the user's text after it
ModifiedPrompt(text, p) ==
    <<"[">> \o JoinRules(p.ethical_rules) \o <<"]", " ">> \o text

\* a check made on the composed prompt
EthicalViolationOnComposed(text, p) ==
    \E r \in 1..Len(p.ethical_rules) :
        RuleHits(ModifiedPrompt(text, p), p.ethical_rules[r])

\* personality.ethical_rules.iter().any(..)
EthicalViolation(text, p) ==
    \E r \in 1..Len(p.ethical_rules) : RuleHits(text, p.ethical_rules[r])

\* unwrap_or_else(|| "Hello")
Hello == <<"H", "e", "l", "l", "o">>

DefaultPrompt(q) == IF q = <<>> THEN Hello ELSE q[1]

-----------------------------------------------------------------------------
(* Inputs: persona files, prompts, upstream replies *)

Persona(phrases, traits, rules) ==
    [signature_phrases |-> phrases, traits |-> traits, ethical_rules |-> rules]

\* no signature phrase, no trait
PlainPersona == Persona(<<>>, {}, << <<"a", "b">> >>)
\* one signature phrase, no trait
PhrasePersona == Persona(<< <<"Sig">> >>, {}, << <<"B">>, <<"h", "e">> >>)
\* both traits at full intensity, no rule
TraitPersona == Persona(<<>>, {<<"sarcasm", 100>>, <<"curiosity", 100>>}, <<>>)

\* a profile whose only rule is the empty string
EmptyRulePersona == Persona(<<>>, {}, << <<>> >>)

Personas == {PlainPersona, PhrasePersona, TraitPersona, EmptyRulePersona}

\* personality.json as load_personality finds it: readable and well-formed, or not
PersonaFiles ==
    {[ok |-> FALSE, persona |-> PlainPersona]} \cup
    {[ok |-> TRUE, persona |-> p] : p \in Personas}

PromptChars == {"a", "A", "b"}

PromptTexts == UNION {[1..n -> PromptChars] : n \in 1..MaxPrompt}

\* params.get("prompt"): None or Some(text)
Queries == {<<>>} \cup {<<t>> : t \in PromptTexts}

\* one item of response.bytes_stream(): Err(e), or Ok(bytes) whose text is not
\* JSON ("notjson"), is JSON without the required fields ("nofields"), or is
\* an envelope with an optional message and the done flag
Item(t, form, msg, done) == [t |-> t, form |-> form, msg |-> msg, done |-> done]

ErrItem      == Item("err", "none", <<>>, FALSE)
NotJson      == Item("bytes", "notjson", <<>>, FALSE)
NoFields     == Item("bytes", "nofields", <<>>, FALSE)
Envelope(content) == Item("bytes", "envelope", <<content>>, FALSE)
NoMessage    == Item("bytes", "envelope", <<>>, FALSE)
DoneEnvelope == Item("bytes", "envelope", << <<>> >>, TRUE)

Contents == { <<>>, <<"A">>, <<"A", " ", "B">>, <<"<unk>">> }

ItemKinds ==
    {ErrItem, NotJson, NoFields, NoMessage, DoneEnvelope} \cup
    {Envelope(c) : c \in Contents}

ShortUpstreams == UNION {[1..n -> ItemKinds] : n \in 0..MaxUp}

\* a reply long enough to fill the channel
LongUpstreams == { [i \in 1..(Capacity + Extra) |-> Envelope(<<"A">>)] }

\* fragments "A", "B", "C", a completion envelope, and one more chunk after it
AbcThenDone ==
    << Envelope(<<"A">>), Envelope(<<"B">>), Envelope(<<"C">>), DoneEnvelope,
       Envelope(<<"A">>) >>

\* the long replies are explored with the personas whose trait coins never fire
UpstreamsFor(p) ==
    ShortUpstreams \cup
    (IF p.traits = {} THEN LongUpstreams \cup {AbcThenDone} ELSE {})

UpStatuses == {200, 500}

-----------------------------------------------------------------------------
(* The producer's handling of one item *)

\* serde_json::from_str::<ChatStreamResponse>(&text): Some(envelope) or None
Decode(item) ==
    IF item.form = "envelope"
    THEN << [message |-> item.msg, done |-> item.done] >>
    ELSE <<>>

Msg(idx, kind, text) == [idx |-> idx, kind |-> kind, text |-> text]

Outcome(act, kind, text) == [act |-> act, kind |-> kind, text |-> text]

\* a send without the test of line 181
SendAlways(enforced) == Outcome("send", "data", enforced \o <<" ">>)

\* line 181: only a non-empty fragment is sent, with a space appended
SendIfNonEmpty(enforced) ==
    IF enforced # <<>>
    THEN Outcome("send", "data", enforced \o <<" ">>)
    ELSE Outcome("skip", "none", <<>>)

\* lines 173-190 for one item: what the loop body does with it, for every
\* outcome of the random source
ChunkOutcomes(item, p) ==
    IF item.t = "err"
    THEN { Outcome("send", "err", <<>>) }
    ELSE LET parsed == Decode(item) IN
         IF parsed = <<>> THEN { Outcome("skip", "none", <<>>) }
         ELSE IF parsed[1].message = <<>> THEN { Outcome("skip", "none", <<>>) }
         ELSE { IF c.panic
                THEN Outcome("panic", "none", <<>>)
                ELSE SendIfNonEmpty(EnforcePersonality(c.text, p, coinS, coinC)) :
                  c \in UNION { CleanContent(parsed[1].message[1], p, coin) :
                                  coin \in BOOLEAN },
                  coinS \in BOOLEAN, coinC \in BOOLEAN }

-----------------------------------------------------------------------------
(* The channel *)

\* an unbounded channel
HasRoomAlways(c) == TRUE

\* tx.send completes only while the buffer has room
HasRoom(c) == Len(c) < Capacity

\* a receiver that takes the newest message
ChanBack(c) == c[Len(c)]

\* rx.recv(): the oldest message
ChanFront(c) == Head(c)

ChanPop(c) == Tail(c)

\* a stream that reports its end as soon as the buffer is empty
TxDroppedOrIdle == TRUE

\* the Sender is dropped when the task ends
TxDropped == ppc \in {"finished", "panicked"}

\* the Receiver exists and is not dropped
RxAlive == cpc = "open"

-----------------------------------------------------------------------------
(* The state machine *)

PipeInit ==
    /\ hpc = "start"
    /\ prompt = <<>>
    /\ personality = <<>>
    /\ status = 0
    /\ posts = 0
    /\ upStatus = 0
    /\ upstream = <<>>
    /\ upIdx = 0
    /\ upOpen = FALSE
    /\ ppc = "none"
    /\ pending = <<>>
    /\ chan = <<>>
    /\ cpc = "none"
    /\ sent = <<>>
    /\ delivered = <<>>
    /\ sendFailed = FALSE
    /\ panicAt = 0
    /\ loadFailed = FALSE

\* no fragment is being processed on its own
FnIdle ==
    /\ fpc = "idle"
    /\ fRaw = <<>>
    /\ fPersona = PlainPersona
    /\ fCoin = FALSE
    /\ fClean = [panic |-> FALSE, text |-> <<>>]
    /\ fAgain = <<>>
    /\ fCoinS = FALSE
    /\ fCoinC = FALSE
    /\ fOut = <<>>

Init == PipeInit /\ FnIdle

\* a load whose failure falls back to a built-in profile
LoadPersonalityOrDefault ==
    /\ hpc = "start"
    /\ \E f \in PersonaFiles, q \in Queries :
          /\ hpc' = "loaded"
          /\ personality' = <<f.persona>>
          /\ prompt' = <<DefaultPrompt(q)>>
          /\ loadFailed' = (loadFailed \/ ~f.ok)
    /\ UNCHANGED << status, posts, upStatus, upstream, upIdx, upOpen, ppc,
                    pending, chan, cpc, sent, delivered, sendFailed, panicAt >>
    /\ UNCHANGED fnVars

\* chat_handler, lines 61-65: load the persona (a failed load panics), take
\* the prompt or its default
LoadPersonality ==
    /\ hpc = "start"
    /\ \E f \in PersonaFiles, q \in Queries :
          IF f.ok
          THEN /\ hpc' = "loaded"
               /\ personality' = <<f.persona>>
               /\ prompt' = <<DefaultPrompt(q)>>
               /\ UNCHANGED loadFailed
          ELSE /\ hpc' = "panicked"
               /\ loadFailed' = TRUE
               /\ UNCHANGED <<personality, prompt>>
    /\ UNCHANGED << status, posts, upStatus, upstream, upIdx, upOpen, ppc,
                    pending, chan, cpc, sent, delivered, sendFailed, panicAt >>
    /\ UNCHANGED fnVars

\* chat_handler, lines 67-75: reject with 403 or go on
EthicalCheck ==
    /\ hpc = "loaded"
    /\ IF EthicalViolation(prompt[1], personality[1])
       THEN hpc' = "rejected" /\ status' = 403
       ELSE hpc' = "post" /\ status' = status
    /\ UNCHANGED << prompt, personality, posts, upStatus, upstream, upIdx,
                    upOpen, ppc, pending, chan, cpc, sent, delivered,
                    sendFailed, panicAt >>
    /\ UNCHANGED <<loadFailed, fnVars>>

\* chat_handler lines 77-93 and chat_stream lines 147-164: compose the prompt,
\* POST it; a network error panics, any reply (whatever its status) goes on
UpstreamPost ==
    /\ hpc = "post"
    /\ posts' = posts + 1
    /\ prompt' = <<>>
    /\ \E neterr \in BOOLEAN :
          IF neterr
          THEN /\ hpc' = "panicked"
               /\ UNCHANGED <<upStatus, upstream, upOpen>>
          ELSE /\ hpc' = "connected"
               /\ upOpen' = TRUE
               /\ \E st \in UpStatuses, up \in UpstreamsFor(personality[1]) :
                     upStatus' = st /\ upstream' = up
    /\ UNCHANGED << personality, status, upIdx, ppc, pending, chan, cpc, sent,
                    delivered, sendFailed, panicAt >>
    /\ UNCHANGED <<loadFailed, fnVars>>

\* chat_stream lines 166-194 and chat_handler lines 95-98: create the channel,
\* spawn the producer, return the response (no status set: 200) over the receiver
SpawnAndRespond ==
    /\ hpc = "connected"
    /\ hpc' = "streaming"
    /\ chan' = <<>>
    /\ ppc' = "reading"
    /\ cpc' = "open"
    /\ status' = 200
    /\ UNCHANGED << prompt, personality, posts, upStatus, upstream, upIdx,
                    upOpen, pending, sent, delivered, sendFailed, panicAt >>
    /\ UNCHANGED <<loadFailed, fnVars>>

\* the producer loop, lines 172-181 and 187: stream.next().await; None ends
\* the task, an item is handled up to its send
ProducerNext ==
    /\ ppc = "reading"
    /\ IF upIdx = Len(upstream)
       THEN /\ ppc' = "finished"
            /\ upOpen' = FALSE
            /\ UNCHANGED <<upIdx, pending, panicAt>>
       ELSE /\ upIdx' = upIdx + 1
            /\ \E o \in ChunkOutcomes(upstream[upIdx + 1], personality[1]) :
                  CASE o.act = "send" ->
                         /\ ppc' = "sending"
                         /\ pending' = <<Msg(upIdx + 1, o.kind, o.text)>>
                         /\ UNCHANGED <<upOpen, panicAt>>
                    [] o.act = "skip" ->
                         /\ ppc' = "reading"
                         /\ UNCHANGED <<pending, upOpen, panicAt>>
                    [] o.act = "panic" ->
                         /\ ppc' = "panicked"
                         /\ upOpen' = FALSE
                         /\ panicAt' = upIdx + 1
                         /\ UNCHANGED pending
    /\ UNCHANGED << hpc, prompt, personality, status, posts, upStatus,
                    upstream, chan, cpc, sent, delivered, sendFailed >>
    /\ UNCHANGED <<loadFailed, fnVars>>

\* lines 182 and 188: let _ = tx.send(..).await; it waits while the buffer is
\* full, fails once the receiver is dropped, and its result is ignored
ProducerSend ==
    /\ ppc = "sending"
    /\ IF RxAlive
       THEN /\ HasRoom(chan)
            /\ chan' = Append(chan, pending[1])
            /\ sent' = Append(sent, pending[1])
            /\ UNCHANGED sendFailed
       ELSE /\ sendFailed' = TRUE
            /\ UNCHANGED <<chan, sent>>
    /\ pending' = <<>>
    /\ ppc' = "reading"
    /\ UNCHANGED << hpc, prompt, personality, status, posts, upStatus,
                    upstream, upIdx, upOpen, cpc, delivered, panicAt >>
    /\ UNCHANGED <<loadFailed, fnVars>>

\* the response body polls ReceiverStream: the next message goes to the
\* client; an Err item fails the body, which drops the receiver
ConsumerRecv ==
    /\ cpc = "open"
    /\ chan # <<>>
    /\ delivered' = Append(delivered, ChanFront(chan))
    /\ IF ChanFront(chan).kind = "err"
       THEN cpc' = "aborted" /\ chan' = <<>>
       ELSE cpc' = cpc /\ chan' = ChanPop(chan)
    /\ UNCHANGED << hpc, prompt, personality, status, posts, upStatus,
                    upstream, upIdx, upOpen, ppc, pending, sent, sendFailed,
                    panicAt >>
    /\ UNCHANGED <<loadFailed, fnVars>>

\* recv() returns None: the buffer is empty and the sender is dropped
ConsumerEnd ==
    /\ cpc = "open"
    /\ chan = <<>>
    /\ TxDropped
    /\ cpc' = "ended"
    /\ UNCHANGED << hpc, prompt, personality, status, posts, upStatus,
                    upstream, upIdx, upOpen, ppc, pending, chan, sent,
                    delivered, sendFailed, panicAt >>
    /\ UNCHANGED <<loadFailed, fnVars>>

\* the client closes the connection: the body and its receiver are dropped,
\* and what the buffer held is discarded
ClientDisconnect ==
    /\ cpc = "open"
    /\ cpc' = "gone"
    /\ chan' = <<>>
    /\ UNCHANGED << hpc, prompt, personality, status, posts, upStatus,
                    upstream, upIdx, upOpen, ppc, pending, sent, delivered,
                    sendFailed, panicAt >>
    /\ UNCHANGED <<loadFailed, fnVars>>

Next ==
    \/ LoadPersonality
    \/ EthicalCheck
    \/ UpstreamPost
    \/ SpawnAndRespond
    \/ ProducerNext
    \/ ProducerSend
    \/ ConsumerRecv
    \/ ConsumerEnd
    \/ ClientDisconnect

Spec == Init /\ [][Next]_vars

\* every step but the client's disconnect: the handler, the spawned producer
\* and the response body
Progress ==
    \/ LoadPersonality
    \/ EthicalCheck
    \/ UpstreamPost
    \/ SpawnAndRespond
    \/ ProducerNext
    \/ ProducerSend
    \/ ConsumerRecv
    \/ ConsumerEnd

\* the runtime polls a task that can make progress, so the request does not
\* stand still while the handler, the producer or the body has a step to
\* take; the client is free never to disconnect
FairSpec == Spec /\ WF_vars(Progress)

-----------------------------------------------------------------------------
(* clean_content and enforce_personality on one fragment *)

Pieces == {"A", "B", " ", "<unk>", "[control_1]", "<u", "nk>"}

\* fragments of three words, with markers between and inside them
LongFragments ==
    { <<"A", " ", "B", " ", "A">>,
      <<"[TOOL_CALLS]", "A", " ", "[TOOL_RESULTS]", "B", " ", " ", "A", "<unk>", "B">> }

RawTexts == UNION {[1..n -> Pieces] : n \in 0..MaxLen} \cup LongFragments

\* a trait: absent, or present with an intensity (hundredths)
TraitChoices(name, levels) == {{}} \cup {{<<name, v>>} : v \in levels}

FnPersonas ==
    { Persona(ph, ts \cup tc, <<>>) :
        ph \in { <<>>, << <<"Sig">>, <<"Yo">> >> },
        ts \in TraitChoices("sarcasm", {0, 50, 51, 100}),
        tc \in TraitChoices("curiosity", {0, 70, 71, 100}) }

TextInit ==
    /\ PipeInit
    /\ fpc = "input"
    /\ fRaw \in RawTexts
    /\ fPersona \in FnPersonas
    /\ fCoin = FALSE
    /\ fClean = [panic |-> FALSE, text |-> <<>>]
    /\ fAgain = <<>>
    /\ fCoinS = FALSE
    /\ fCoinC = FALSE
    /\ fOut = <<>>

\* line 178: clean_content(&msg.content, &personality)
FnClean ==
    /\ fpc = "input"
    /\ \E coin \in BOOLEAN :
          \E r \in CleanContent(fRaw, fPersona, coin) :
             /\ fCoin' = coin
             /\ fClean' = r
             /\ fpc' = IF r.panic THEN "panicked" ELSE "cleaned"
    /\ UNCHANGED <<fRaw, fPersona, fAgain, fCoinS, fCoinC, fOut>>
    /\ UNCHANGED pipeVars

\* clean_content applied to its own result, gen_bool(0.3) coming out false
FnReclean ==
    /\ fpc = "cleaned"
    /\ \E r \in CleanContent(fClean.text, fPersona, FALSE) : fAgain' = r.text
    /\ fpc' = "recleaned"
    /\ UNCHANGED <<fRaw, fPersona, fCoin, fClean, fCoinS, fCoinC, fOut>>
    /\ UNCHANGED pipeVars

\* line 179: enforce_personality(cleaned, &personality)
FnEnforce ==
    /\ fpc = "cleaned"
    /\ \E cS \in BOOLEAN, cC \in BOOLEAN :
          /\ fCoinS' = cS
          /\ fCoinC' = cC
          /\ fOut' = EnforcePersonality(fClean.text, fPersona, cS, cC)
    /\ fpc' = "enforced"
    /\ UNCHANGED <<fRaw, fPersona, fCoin, fClean, fAgain>>
    /\ UNCHANGED pipeVars

TextNext ==
    \/ FnClean
    \/ FnReclean
    \/ FnEnforce

TextSpec == TextInit /\ [][TextNext]_vars

-----------------------------------------------------------------------------
(* Vocabulary of the properties *)

\* the item is a chunk of bytes that does not decode as an envelope
IsUndecodable(item) == item.t = "bytes" /\ Decode(item) = <<>>

\* the item decodes as an envelope that carries a message
HasMessage(item) ==
    item.t = "bytes" /\ Decode(item) # <<>> /\ Decode(item)[1].message # <<>>

\* the item decodes as an envelope whose completion flag is set
IsDone(item) == item.t = "bytes" /\ Decode(item) # <<>> /\ Decode(item)[1].done

\* the words left of a message's content once the markers are removed
WordsOf(item) == SplitWhitespace(RemoveMarkers(item.msg[1]))

\* the producer is through with item i: its send, if any, has returned
Handled(i) == i < upIdx \/ (i = upIdx /\ ppc # "sending")

\* no send can have failed: the receiver was never dropped
NeverDropped == cpc \in {"open", "ended"}

SentFor(i) == \E k \in 1..Len(sent) : sent[k].idx = i

\* some rule, case folded, occurs in the case-folded text at some offset
PhraseInPrompt(text, p) ==
    \E r \in 1..Len(p.ethical_rules) :
        LET rule == p.ethical_rules[r] IN
        \E off \in 0..(Len(text) - Len(rule)) :
            \A k \in 1..Len(rule) : LowerChar(text[off + k]) = LowerChar(rule[k])

-----------------------------------------------------------------------------
(* Properties *)

\* C1: the messages delivered to the client are, in order, the messages the
\* producer sent, and they come from strictly increasing upstream chunks (the
\* upstream's order, none delivered twice), each a chunk of the kind it reports.
C1_DeliveredInUpstreamOrder ==
    /\ Len(delivered) <= Len(sent)
    /\ \A i \in 1..Len(delivered) :
          /\ delivered[i] = sent[i]
          /\ delivered[i].idx \in 1..upIdx
          /\ delivered[i].kind = "data" => HasMessage(upstream[delivered[i].idx])
          /\ delivered[i].kind = "err" => upstream[delivered[i].idx].t = "err"
    /\ \A i, j \in 1..Len(delivered) :
          i < j => delivered[i].idx < delivered[j].idx

\* C1 witness: two messages delivered while a third waits in the channel and
\* the producer is in the middle of a send
C1_Witness ==
    Len(delivered) >= 2 /\ chan # <<>> /\ ppc = "sending" /\ cpc = "open"

\* C2: the channel never holds more than Capacity messages, and from a state
\* where it is full and the producer is in a send, no step completes the send,
\* drops its message or reads another upstream chunk.
C2_Backpressure ==
    /\ [](Len(chan) <= Capacity)
    /\ [][ (Len(chan) = Capacity /\ ppc = "sending") =>
              (ppc' = "sending" /\ pending' = pending /\ upIdx' = upIdx
               /\ sent' = sent) ]_vars

\* C2 witness: the channel is full, the receiver is there, the producer waits
C2_Witness ==
    Len(chan) = Capacity /\ ppc = "sending" /\ pending # <<>> /\ cpc = "open"

\* C3: once a send has failed because the receiver is gone, the producer takes
\* no further item from the upstream.
C3_StopsAfterFailedSend == [][ sendFailed => upIdx' = upIdx ]_vars

\* C4: an Error message is the last message the producer sends: no data
\* fragment and no second Error follows it.
C4_ErrorIsTerminal ==
    \A i \in 1..Len(sent) : sent[i].kind = "err" => i = Len(sent)

\* C5: when the upstream replied with a non-success status, the response
\* returned has a non-success status and no data fragment reaches the client.
C5_ConnectFailureFails ==
    (upStatus \notin 200..299 /\ status # 0) =>
        /\ status \notin 200..299
        /\ \A i \in 1..Len(delivered) : delivered[i].kind # "data"

\* C6: no data fragment delivered to the client comes from a chunk that
\* follows an envelope whose completion flag is set.
C6_NothingAfterDone ==
    \A i \in 1..Len(delivered) :
        delivered[i].kind = "data" =>
            ~ \E j \in 1..(delivered[i].idx - 1) : IsDone(upstream[j])

\* C7: while the prompt contains an ethical-constraint phrase of the loaded
\* persona, case ignored, the request is at the check or rejected with 403:
\* no POST has been issued, no reply, channel, producer or body exists.
C7_PolicyBeforeUpstream ==
    (prompt # <<>> /\ personality # <<>>
       /\ PhraseInPrompt(prompt[1], personality[1])) =>
        /\ hpc \in {"loaded", "rejected"}
        /\ hpc = "rejected" => status = 403
        /\ hpc = "loaded" => status = 0
        /\ posts = 0 /\ upStatus = 0 /\ ~upOpen
        /\ ppc = "none" /\ cpc = "none" /\ chan = <<>> /\ sent = <<>>

\* C7 witness: a request rejected for a phrase that occurs in the prompt only
\* when case is ignored
C7_Witness ==
    /\ hpc = "rejected" /\ status = 403 /\ posts = 0
    /\ \A r \in 1..Len(personality[1].ethical_rules) :
          ~ Contains(prompt[1], personality[1].ethical_rules[r])

\* C8: after a chunk that does not decode, every later chunk that decodes with
\* content that has words left after cleaning is relayed once the producer is
\* through with it (the client still being there).
C8_LaterChunksRelayed ==
    \A j \in 1..upIdx, i \in 1..upIdx :
        ( /\ j < i
          /\ IsUndecodable(upstream[j])
          /\ HasMessage(upstream[i]) /\ WordsOf(upstream[i]) # <<>>
          /\ Handled(i) /\ NeverDropped ) => SentFor(i)

\* The part of C8 about the undecodable chunk itself: the step that takes it
\* puts nothing on the channel, starts no send and leaves the producer reading
\* with the upstream still held.
C8_DiscardStep ==
    [][ (ppc = "reading" /\ upIdx < Len(upstream)
           /\ IsUndecodable(upstream[upIdx + 1]) /\ upIdx' = upIdx + 1) =>
          (ppc' = "reading" /\ chan' = chan /\ sent' = sent
           /\ pending' = pending /\ upOpen' = upOpen /\ panicAt' = panicAt) ]_vars

\* C9: every decoded envelope that carries a message yields a data fragment on
\* the channel once the producer is through with it (the client still being
\* there), whatever its content.
C9_EveryMessageEmitted ==
    \A i \in 1..upIdx :
        (HasMessage(upstream[i]) /\ Handled(i) /\ NeverDropped) => SentFor(i)

\* C10: the producer never fails on a fragment that has fewer than 2 words
\* after marker removal.
C10_ShortFragmentNoFailure ==
    \A i \in 1..upIdx :
        (HasMessage(upstream[i]) /\ Len(WordsOf(upstream[i])) < 2) => panicAt # i

\* The fragment has been through clean_content without a failure
FnCleaned == fpc \in {"cleaned", "recleaned", "enforced"}

\* signature insertion fired in clean_content
InsertionFired == fCoin /\ fPersona.signature_phrases # <<>>

\* some marker occurs in s
HasMarker(s) == \E i \in 1..Len(s) : MarkerLen(SubSeq(s, i, Len(s))) > 0

\* the raw fragment with its markers removed and its whitespace collapsed
Sanitized(raw) == JoinWords(SplitWhitespace(RemoveMarkers(raw)))

Count(s, x) == Cardinality({i \in 1..Len(s) : s[i] = x})

\* s without its element at position k
RemoveAt(s, k) == SubSeq(s, 1, k - 1) \o SubSeq(s, k + 1, Len(s))

\* the persona has the trait with an intensity over the bound
TraitOver(p, name, bound) == \E t \in p.traits : t[1] = name /\ t[2] > bound

\* C11: with insertion not firing, the result of clean_content holds no marker
\* and cleaning it again changes nothing.
C11_CleanCompleteIdempotent ==
    /\ (FnCleaned /\ ~InsertionFired) => ~HasMarker(fClean.text)
    /\ (fpc = "recleaned" /\ ~InsertionFired) => fAgain = fClean.text

\* C12: for a persona with no signature phrase and every trait absent or 0,
\* clean_content never fails and inserts nothing, and enforce_personality
\* returns the cleaned fragment as it is, for every outcome of the coins.
C12_NeutralPersonaIdentity ==
    (fpc # "input" /\ fPersona.signature_phrases = <<>>
       /\ \A t \in fPersona.traits : t[2] = 0) =>
        /\ fpc # "panicked"
        /\ fClean.text = Sanitized(fRaw)
        /\ fpc = "enforced" => fOut = Sanitized(fRaw)

\* C12 witness: a non-empty fragment enforced under a persona whose traits are
\* present at 0, every coin having come out true
C12_Witness ==
    /\ fpc = "enforced" /\ fCoin /\ fCoinS /\ fCoinC /\ fOut # <<>>
    /\ fPersona.signature_phrases = <<>>
    /\ fPersona.traits = {<<"sarcasm", 0>>, <<"curiosity", 0>>}

\* C13: with sarcasm at 1.0 and both coins of enforce_personality succeeding,
\* the result is the fragment directly followed by the sarcastic suffix, which
\* occurs exactly once in it, whatever the curiosity trait is.
C13_SarcasmExactlyOnce ==
    (fpc = "enforced" /\ <<"sarcasm", 100>> \in fPersona.traits
       /\ fCoinS /\ fCoinC) =>
        /\ Count(fOut, SarcasmSuffix) = 1
        /\ Len(fOut) > Len(fClean.text)
        /\ SubSeq(fOut, 1, Len(fClean.text)) = fClean.text
        /\ fOut[Len(fClean.text) + 1] = SarcasmSuffix

\* C13 witness: sarcasm and curiosity both at 1.0, both coins succeeding, on a
\* non-empty fragment
C13_Witness ==
    /\ fpc = "enforced" /\ fCoinS /\ fCoinC /\ fClean.text # <<>>
    /\ fPersona.traits = {<<"sarcasm", 100>>, <<"curiosity", 100>>}

\* C16: when insertion fired, the fragment had n >= 2 words and the result has
\* n + 1: one of the persona's phrases at a place after the first word and
\* before the last, the original words around it in their order.
C16_InsertionPlace ==
    (FnCleaned /\ InsertionFired) =>
        LET words == SplitWhitespace(RemoveMarkers(fRaw))
            out   == SplitWhitespace(fClean.text)
            n     == Len(words)
        IN  /\ n >= 2
            /\ Len(out) = n + 1
            /\ out[1] = words[1]
            /\ out[n + 1] = words[n]
            /\ \E i \in 1..(n - 1) :
                  /\ \E k \in 1..Len(fPersona.signature_phrases) :
                        out[i + 1] = fPersona.signature_phrases[k]
                  /\ RemoveAt(out, i + 1) = words

\* C16 witness: a phrase inserted at index 2 of a three-word fragment
C16_Witness ==
    /\ FnCleaned /\ InsertionFired
    /\ Len(SplitWhitespace(RemoveMarkers(fRaw))) = 3
    /\ SplitWhitespace(fClean.text)[3] = <<"Yo">>

\* C17: the result of enforce_personality is the fragment, then the sarcastic
\* suffix exactly if the sarcasm trait is present over 0.5 and its coin
\* succeeded, then the curiosity suffix exactly if the curiosity trait is
\* present over 0.7 and its coin succeeded.
C17_TraitGating ==
    fpc = "enforced" =>
        LET sFires == TraitOver(fPersona, "sarcasm", 50) /\ fCoinS
            cFires == TraitOver(fPersona, "curiosity", 70) /\ fCoinC
        IN  /\ Count(fOut, SarcasmSuffix) > 0 => sFires
            /\ Count(fOut, CuriositySuffix) > 0 => cFires
            /\ fOut = fClean.text
                        \o (IF sFires THEN <<SarcasmSuffix>> ELSE <<>>)
                        \o (IF cFires THEN <<CuriositySuffix>> ELSE <<>>)

\* C17 witness: sarcasm exactly at its threshold and curiosity just over its
\* own, both coins succeeding: only the curiosity suffix is appended
C17_Witness ==
    /\ fpc = "enforced" /\ fCoinS /\ fCoinC
    /\ fPersona.traits = {<<"sarcasm", 50>>, <<"curiosity", 71>>}
    /\ fOut = fClean.text \o <<CuriositySuffix>>

\* the augmented fragments the producer can make of item i
FragmentsOf(i) ==
    { EnforcePersonality(c.text, personality[1], cS, cC) :
        c \in { r \in UNION { CleanContent(upstream[i].msg[1], personality[1], coin) :
                                coin \in BOOLEAN } : ~r.panic },
        cS \in BOOLEAN, cC \in BOOLEAN }

\* messages accepted by the channel or in a send
Produced == sent \o pending

C14_NeverStuck ==
    (hpc = "streaming" /\ ~(ppc \in {"finished", "panicked"} /\ cpc # "open"))
        => ENABLED Progress

C15_LoadFailureStopsRequest ==
    loadFailed =>
        /\ hpc = "panicked" /\ personality = <<>> /\ status = 0
        /\ posts = 0 /\ upStatus = 0 /\ ~upOpen
        /\ ppc = "none" /\ cpc = "none" /\ chan = <<>>
        /\ sent = <<>> /\ delivered = <<>>

\* C15 witness: the load has failed
C15_Witness == loadFailed /\ hpc = "panicked"

\* C18: every data message produced is one of the augmented fragments of its
\* chunk, non-empty, followed by one space that the fragment does not itself
\* end with; messages come from strictly increasing chunks, so at most one per
\* chunk and never more than the chunks read.
C18_MessageShape ==
    /\ \A k \in 1..Len(Produced) :
          LET m == Produced[k] IN
          m.kind = "data" =>
             /\ Len(m.text) >= 2
             /\ m.text[Len(m.text)] = " "
             /\ m.text[Len(m.text) - 1] \notin Whitespace
             /\ HasMessage(upstream[m.idx])
             /\ SubSeq(m.text, 1, Len(m.text) - 1) \in FragmentsOf(m.idx)
    /\ \A j, k \in 1..Len(Produced) : j < k => Produced[j].idx < Produced[k].idx
    /\ \A k \in 1..Len(Produced) : Produced[k].idx \in 1..upIdx
    /\ Len(Produced) <= upIdx

\* C18 witness: a chunk with empty content produced no message, and one sent
\* message is a suffix alone, appended to an empty fragment, plus the space
C18_Witness ==
    /\ \E i \in 1..upIdx :
          HasMessage(upstream[i]) /\ Handled(i) /\ NeverDropped /\ ~SentFor(i)
    /\ \E k \in 1..Len(sent) : sent[k].text = <<SarcasmSuffix, " ">>

\* C19: past the check the request is rejected with 403 exactly if some rule
\* occurs, case ignored, in the user's text, which is the query's prompt or
\* "Hello"; in particular a profile with an empty rule lets no request pass.
C19_RejectIffRuleInUserText ==
    hpc \in {"loaded", "post", "rejected"} =>
        /\ prompt[1] \in PromptTexts \cup {Hello}
        /\ hpc = "rejected" =>
              (status = 403 /\ PhraseInPrompt(prompt[1], personality[1]))
        /\ hpc = "post" =>
              (status = 0 /\ ~PhraseInPrompt(prompt[1], personality[1]))
        /\ (\E r \in 1..Len(personality[1].ethical_rules) :
               personality[1].ethical_rules[r] = <<>>) => hpc # "post"

\* C19 witness: an absent prompt rejected for the rule "he", found in "Hello"
C19_Witness ==
    /\ hpc = "rejected" /\ status = 403 /\ prompt[1] = Hello
    /\ personality[1] = PhrasePersona

=============================================================================
